---- MODULE Spec2Model ----
(***************************************************************************)
(* A model of triton_parser.go: Unmarshal decodes the output tensors of an *)
(* inference response into the tagged fields of a destination struct.      *)
(*                                                                         *)
(* Representation.                                                         *)
(*   - a byte is an integer 0..255, a payload a record [b, tail]: b is the *)
(*     slice's bytes (len(b) of them), tail the bytes of its backing array *)
(*     between len and cap (Go slices b[lo:hi] up to cap, not len);        *)
(*   - a Go type is [rank, elem]: rank 0 is T, 1 is []T, 2 is [][]T;       *)
(*   - a field's value is a sequence of rows, a row a sequence of          *)
(*     elements: a T is one row of one element, a []T one row, a [][]T one *)
(*     row per inner slice (nil and empty slices are not told apart);      *)
(*   - an element is a sequence of integers: <<x>> for a number x (a bool  *)
(*     is 0 or 1), the bytes of a string, and for the types wider than the *)
(*     checker's integers (uint32, int64, float32, float64) the value's    *)
(*     base-256 digits, most significant first.                            *)
(*   - the struct's fields are exported, so that v.Set on a field whose    *)
(*     type was checked does not panic.                                    *)
(***************************************************************************)
EXTENDS Integers, Sequences, FiniteSets, TLC

\* ------------------------------------------------------------------ bounds
MaxOutputs == 2     \* outputs of one response (Spec)
MaxDim     == 2     \* largest dimension of a shape
MaxRaw     == 4     \* longest numeric payload, in bytes (SpecNum)
MaxStrs    == 4     \* most strings encoded in one payload (SpecStr)

\* ------------------------------------------------------------- datatypes
\* The datatype tags Unmarshal switches on.
Tags ==
  {"BOOL", "UINT8", "UINT16", "UINT32", "INT8", "INT16", "INT32", "INT64",
   "FLOAT16", "FLOAT32", "FLOAT64", "STRING"}

\* The Go type each numeric tag's branch is instantiated with.
GoType(tag) ==
  CASE tag = "BOOL"    -> "bool"
    [] tag = "UINT8"   -> "uint8"
    [] tag = "UINT16"  -> "uint16"
    [] tag = "UINT32"  -> "uint32"
    [] tag = "INT8"    -> "int8"
    [] tag = "INT16"   -> "int16"
    [] tag = "INT32"   -> "int32"
    [] tag = "INT64"   -> "int64"
    [] tag = "FLOAT32" -> "float32"
    [] tag = "FLOAT64" -> "float64"
    [] tag = "STRING"  -> "string"

\* reflect.TypeOf(t).Size() of the numeric Go types.
Width(tag) ==
  CASE tag \in {"BOOL", "UINT8", "INT8"}       -> 1
    [] tag \in {"UINT16", "INT16"}             -> 2
    [] tag \in {"UINT32", "INT32", "FLOAT32"}  -> 4
    [] tag \in {"INT64", "FLOAT64"}            -> 8

TypeOf(rank, elem) == [rank |-> rank, elem |-> elem]

\* --------------------------------------------------------------- results
\* What a decoding routine does: return nil after v.Set(val) (write), return
\* nil without touching the field, return an error, or panic.
Ok(val)    == [st |-> "ok",    msg |-> "",  write |-> TRUE,  val |-> val]
OkNoWrite  == [st |-> "ok",    msg |-> "",  write |-> FALSE, val |-> <<>>]
Err(msg)   == [st |-> "err",   msg |-> msg, write |-> FALSE, val |-> <<>>]
Panic(msg) == [st |-> "panic", msg |-> msg, write |-> FALSE, val |-> <<>>]

ErrTypes      == "types doesn't match"
ErrEOF        == "binary read failed: EOF"
ErrShortRead  == "binary read failed: unexpected EOF"
ErrStringType == "binary read failed: binary.Read: invalid type *string"
ErrRank       == "len(shape) > 2 is not yet supported"
ErrShape      == "unknown shape"
ErrFloat16    == "FLOAT16 not yet supported"
ErrUnknown    == "unkwnow type"
PanicIndex    == "index out of range"
PanicSlice    == "slice bounds out of range"
PanicMake     == "makeslice: cap out of range"

\* ------------------------------------------------------------ byte decoder
RECURSIVE LEUint(_)
\* binary.LittleEndian.UintN: the first byte is the least significant.
LEUint(bs) == IF bs = <<>> THEN 0 ELSE bs[1] + 256 * LEUint(Tail(bs))

RECURSIVE Pow256(_)
Pow256(k) == IF k = 0 THEN 1 ELSE 256 * Pow256(k - 1)

\* Two's complement: the last (most significant) byte carries the sign.
LEInt(bs) ==
  LET n  == Len(bs)
      hi == IF bs[n] >= 128 THEN bs[n] - 256 ELSE bs[n]
  IN  LEUint(SubSeq(bs, 1, n - 1)) + Pow256(n - 1) * hi

Reverse(bs) == [k \in 1..Len(bs) |-> bs[Len(bs) + 1 - k]]

\* binary.Read of one fixed-width element from exactly Width(tag) bytes.
DecodeElem(tag, bs) ==
  CASE tag = "BOOL"                      -> <<IF bs[1] # 0 THEN 1 ELSE 0>>
    [] tag \in {"UINT8", "UINT16"}       -> <<LEUint(bs)>>
    [] tag \in {"INT8", "INT16", "INT32"} -> <<LEInt(bs)>>
    [] OTHER                             -> Reverse(bs)

\* binary.Read of a fixed-width element from a reader over bs at offset off:
\* io.ReadFull gives EOF when nothing is left, ErrUnexpectedEOF when fewer
\* than Width(tag) bytes are.
ReadElem(tag, bs, off) ==
  IF off >= Len(bs) THEN Err(ErrEOF)
  ELSE IF Len(bs) - off < Width(tag) THEN Err(ErrShortRead)
  ELSE Ok(DecodeElem(tag, SubSeq(bs, off + 1, off + Width(tag))))

\* The Go slice expression raw[lo:hi]: legal up to the capacity.
SliceOk(raw, lo, hi) == 0 <= lo /\ lo <= hi /\ hi <= Len(raw.b) + Len(raw.tail)
SliceOf(raw, lo, hi) == SubSeq(raw.b \o raw.tail, lo + 1, hi)

RECURSIVE BytesLoop(_, _, _, _)
\* The loop of bytesToArray: one read per Width(tag) bytes of len(b).
BytesLoop(tag, b, i, arr) ==
  IF i >= Len(b) THEN Ok(<<arr>>)
  ELSE LET r == ReadElem(tag, b, i)
       IN  IF r.st # "ok" THEN r
           ELSE BytesLoop(tag, b, i + Width(tag), Append(arr, r.val))

\* Mutant: the loop stops one element early (i < len(b) - size).
bytesToArrayStopsEarly(tag, b) ==
  BytesLoop(tag, SubSeq(b, 1, Len(b) - Width(tag)), 0, <<>>)

bytesToArray(tag, b) == BytesLoop(tag, b, 0, <<>>)

RECURSIVE StringLoop(_, _, _, _, _)
\* The loop of stringBytesToArray: size strings, each a 4-byte little-endian
\* length and that many bytes, read through slice expressions.
StringLoop(raw, size, i, prev, arr) ==
  IF i >= size THEN Ok(<<arr>>)
  ELSE IF ~SliceOk(raw, prev, prev + 4) THEN Panic(PanicSlice)
  ELSE LET strLen == LEUint(SliceOf(raw, prev, prev + 4))
       IN  IF ~SliceOk(raw, prev + 4, prev + 4 + strLen) THEN Panic(PanicSlice)
           ELSE StringLoop(raw, size, i + 1, prev + 4 + strLen,
                           Append(arr, SliceOf(raw, prev + 4, prev + 4 + strLen)))

stringBytesToArray(raw, size) == StringLoop(raw, size, 0, 0, <<>>)

\* ------------------------------------------------------- decoding routines
unmarshalValue(tag, ftype, raw) ==
  IF ftype # TypeOf(0, GoType(tag)) THEN Err(ErrTypes)
  ELSE LET r == ReadElem(tag, raw.b, 0)
       IN  IF r.st # "ok" THEN r ELSE Ok(<< <<r.val>> >>)

unmarshalStringValue(ftype, raw) ==
  IF Len(raw.b) = 0 THEN OkNoWrite
  ELSE IF Len(raw.b) < 4 THEN Err(ErrShortRead)
  ELSE IF ftype # TypeOf(0, "string") THEN Err(ErrTypes)
  \* binary.Read(buf, order, &val) with val a string: encoding/binary decodes
  \* fixed-size data only and rejects *string whatever the bytes are.
  ELSE Err(ErrStringType)

unmarshalArray(tag, ftype, shape, raw) ==
  IF shape[2] < 0 THEN Panic(PanicMake)
  ELSE IF ftype # TypeOf(1, GoType(tag)) THEN Err(ErrTypes)
  ELSE bytesToArray(tag, raw.b)

unmarshalStringArray(ftype, shape, raw) ==
  LET arrLen == Len(shape)
  IN  IF ftype # TypeOf(1, "string") THEN Err(ErrTypes)
      ELSE IF Len(raw.b) = 0 THEN OkNoWrite
      ELSE stringBytesToArray(raw, arrLen)

RECURSIVE MultiLoop(_, _, _, _, _, _, _)
\* The nested loops of unmarshalMultidimenshionalArray: binary.Read into
\* &arr[i][j], the index expressions being evaluated before the read.
MultiLoop(tag, b, off, arr, i, j, shape) ==
  IF i >= shape[1] THEN Ok(arr)
  ELSE IF j >= shape[2] THEN MultiLoop(tag, b, off, arr, i + 1, 0, shape)
  ELSE IF i >= Len(arr) \/ j >= Len(arr[i + 1]) THEN Panic(PanicIndex)
  ELSE LET r == ReadElem(tag, b, off)
       IN  IF r.st # "ok" THEN r
           ELSE MultiLoop(tag, b, off + Width(tag),
                          [arr EXCEPT ![i + 1][j + 1] = r.val], i, j + 1, shape)

\* make([][]T, 0, numOfArrays): no rows.
MultiMake(shape) == <<>>

unmarshalMultidimenshionalArray(tag, ftype, shape, raw) ==
  IF ftype # TypeOf(2, GoType(tag)) THEN Err(ErrTypes)
  ELSE MultiLoop(tag, raw.b, 0, MultiMake(shape), 0, 0, shape)

RECURSIVE MultiStringLoop(_, _, _, _, _, _)
MultiStringLoop(raw, prev, arr, i, j, shape) ==
  IF i >= shape[1] THEN Ok(arr)
  ELSE IF j >= shape[2] THEN MultiStringLoop(raw, prev, arr, i + 1, 0, shape)
  ELSE IF ~SliceOk(raw, prev, prev + 4) THEN Panic(PanicSlice)
  ELSE LET strLen == LEUint(SliceOf(raw, prev, prev + 4))
       IN  IF ~SliceOk(raw, prev + 4, prev + 4 + strLen) THEN Panic(PanicSlice)
           ELSE MultiStringLoop(raw, prev + 4 + strLen,
                  [arr EXCEPT ![i + 1][j + 1] = SliceOf(raw, prev + 4, prev + 4 + strLen)],
                  i, j + 1, shape)

unmarshalMultidimenshionalStringArray(ftype, shape, raw) ==
  IF ftype # TypeOf(2, "string") THEN Err(ErrTypes)
  ELSE IF shape[2] < 0 THEN Panic(PanicMake)
  ELSE IF Len(raw.b) = 0 THEN OkNoWrite
  ELSE MultiStringLoop(raw, 0, [r \in 1..shape[1] |-> [c \in 1..shape[2] |-> <<>>]],
                       0, 0, shape)

\* ---------------------------------------------------- datatype dispatcher
parseToValue(ftype, o, raw) ==
  CASE o.datatype = "FLOAT16"  -> Err(ErrFloat16)
    [] o.datatype = "STRING"   -> unmarshalStringValue(ftype, raw)
    [] o.datatype \notin Tags  -> Err(ErrUnknown)
    [] OTHER                   -> unmarshalValue(o.datatype, ftype, raw)

parseToArray(ftype, o, raw) ==
  CASE o.datatype = "FLOAT16"  -> Err(ErrFloat16)
    [] o.datatype = "STRING"   -> unmarshalStringArray(ftype, o.shape, raw)
    [] o.datatype \notin Tags  -> Err(ErrUnknown)
    [] OTHER                   -> unmarshalArray(o.datatype, ftype, o.shape, raw)

parseToMultidimenshionalArray(ftype, o, raw) ==
  CASE o.datatype = "FLOAT16"  -> Err(ErrFloat16)
    [] o.datatype = "STRING"   -> unmarshalMultidimenshionalStringArray(ftype, o.shape, raw)
    [] o.datatype \notin Tags  -> Err(ErrUnknown)
    [] OTHER                   -> unmarshalMultidimenshionalArray(o.datatype, ftype, o.shape, raw)

\* ------------------------------------------------------- shape classifier
\* The second case evaluates shape[0] before len(shape) == 2, so an empty
\* shape panics there.
parse(ftype, o, raw) ==
  IF Len(o.shape) > 2 THEN Err(ErrRank)
  ELSE IF Len(o.shape) = 1 THEN parseToValue(ftype, o, raw)
  ELSE IF Len(o.shape) = 0 THEN Panic(PanicIndex)
  ELSE IF o.shape[1] = 1 THEN parseToArray(ftype, o, raw)
  ELSE IF o.shape[1] > 1 THEN parseToMultidimenshionalArray(ftype, o, raw)
  ELSE Err(ErrShape)

\* ---------------------------------------------------------- field registry
\* getTagFieldMap: every field is stored under its tag (the empty string when
\* it has none), a later field replacing an earlier one with the same tag.
\* The map is given as tag -> index of the field.
getTagFieldMap(fs) ==
  [t \in {fs[k].tag : k \in 1..Len(fs)} |->
     CHOOSE k \in 1..Len(fs) :
       fs[k].tag = t /\ \A l \in 1..Len(fs) : fs[l].tag = t => l <= k]

\* ------------------------------------------------------------------- state
VARIABLES
  target,    \* what v is: "struct pointer", "nil pointer", "not a pointer", "pointer to non-struct"
  fields,    \* the destination struct's fields: [tag, type], in declaration order
  vals,      \* the fields' current values
  outputs,   \* inferResponse.GetOutputs(): [name, datatype, shape]
  raws,      \* inferResponse.GetRawOutputContents(): [b, tail]
  pc,        \* "start", "loop", "done" (returned nil), "failed" (returned err), "panic"
  i,         \* the loop index of unmarshal, from 1
  err,       \* the error returned or the panic raised
  vals0,     \* history: the fields' values when Unmarshal was called
  log        \* history: what was done with each output so far

vars == <<target, fields, vals, outputs, raws, pc, i, err, vals0, log>>

\* ------------------------------------------------------------ orchestrator
\* The call parse(m, o, rawBytes[i]) of the loop body: rawBytes[i] is
\* evaluated first and panics when there are fewer payloads than outputs.
ParseCall(fs, os, rs, k) ==
  IF k > Len(rs) THEN Panic(PanicIndex)
  ELSE parse(fs[getTagFieldMap(fs)[os[k].name]].type, os[k], rs[k])

Mapped(k) == outputs[k].name \in DOMAIN getTagFieldMap(fields)

\* Unmarshal's checks of v.
UnmarshalReject ==
  /\ pc = "start"
  /\ target # "struct pointer"
  /\ pc' = "failed"
  /\ err' = IF target = "pointer to non-struct" THEN "v must be struct"
            ELSE "v must be pointer"
  /\ UNCHANGED <<target, fields, vals, outputs, raws, i, vals0, log>>

UnmarshalEnter ==
  /\ pc = "start"
  /\ target = "struct pointer"
  /\ pc' = "loop"
  /\ UNCHANGED <<target, fields, vals, outputs, raws, i, err, vals0, log>>

\* The loop body for an output no field is tagged with: continue.
Skip ==
  /\ pc = "loop"
  /\ i <= Len(outputs)
  /\ ~Mapped(i)
  /\ i' = i + 1
  /\ log' = Append(log, "skip")
  /\ UNCHANGED <<target, fields, vals, outputs, raws, pc, err, vals0>>

\* The loop body for a mapped output whose parse returns nil.
ParseOk ==
  /\ pc = "loop"
  /\ i <= Len(outputs)
  /\ Mapped(i)
  /\ LET r == ParseCall(fields, outputs, raws, i)
     IN  /\ r.st = "ok"
         /\ vals' = IF r.write
                    THEN [vals EXCEPT ![getTagFieldMap(fields)[outputs[i].name]] = r.val]
                    ELSE vals
         /\ log' = Append(log, IF r.write THEN "set" ELSE "nil")
  /\ i' = i + 1
  /\ UNCHANGED <<target, fields, outputs, raws, pc, err, vals0>>

\* Mutant: the error is kept but the loop goes on to the next output.
ParseErrContinues ==
  /\ pc = "loop"
  /\ i <= Len(outputs)
  /\ Mapped(i)
  /\ LET r == ParseCall(fields, outputs, raws, i)
     IN  /\ r.st = "err"
         /\ err' = r.msg
  /\ i' = i + 1
  /\ log' = Append(log, "err")
  /\ UNCHANGED <<target, fields, vals, outputs, raws, pc, vals0>>

\* The loop body for a mapped output whose parse returns an error.
ParseErr ==
  /\ pc = "loop"
  /\ i <= Len(outputs)
  /\ Mapped(i)
  /\ LET r == ParseCall(fields, outputs, raws, i)
     IN  /\ r.st = "err"
         /\ err' = r.msg
  /\ pc' = "failed"
  /\ log' = Append(log, "err")
  /\ UNCHANGED <<target, fields, vals, outputs, raws, i, vals0>>

\* The loop body for a mapped output whose parse panics.
ParsePanic ==
  /\ pc = "loop"
  /\ i <= Len(outputs)
  /\ Mapped(i)
  /\ LET r == ParseCall(fields, outputs, raws, i)
     IN  /\ r.st = "panic"
         /\ err' = r.msg
  /\ pc' = "panic"
  /\ log' = Append(log, "panic")
  /\ UNCHANGED <<target, fields, vals, outputs, raws, i, vals0>>

\* The loop is over: return nil.
Return ==
  /\ pc = "loop"
  /\ i > Len(outputs)
  /\ pc' = "done"
  /\ UNCHANGED <<target, fields, vals, outputs, raws, i, err, vals0, log>>

Next ==
  \/ UnmarshalReject
  \/ UnmarshalEnter
  \/ Skip
  \/ ParseOk
  \/ ParseErr
  \/ ParsePanic
  \/ Return

\* ------------------------------------------------------------------ inputs
Targets == {"struct pointer", "nil pointer", "not a pointer", "pointer to non-struct"}

SeqsUpTo(S, n) == UNION {[1..k -> S] : k \in 0..n}

\* The zero value of a Go type, and a value that is not the zero value.
ZeroElem(elem) ==
  CASE elem = "string" -> <<>>
    [] elem \in {"uint32", "float32"} -> <<0, 0, 0, 0>>
    [] elem \in {"int64", "float64"}  -> <<0, 0, 0, 0, 0, 0, 0, 0>>
    [] OTHER -> <<0>>

ZeroValue(type) ==
  CASE type.rank = 0 -> << <<ZeroElem(type.elem)>> >>
    [] type.rank = 1 -> << <<>> >>
    [] type.rank = 2 -> <<>>

PriorElem(elem) == IF elem = "string" THEN <<97>> ELSE <<1>>
PriorValue(type) == << <<PriorElem(type.elem)>> >>

\* Every shape of rank 0, 1 and 2 with dimensions 0..MaxDim, and one of rank 3.
Shapes == SeqsUpTo(0..MaxDim, 2) \cup {<<1, 1, 1>>}

Start(fs, vs, os, rs, t) ==
  /\ target = t
  /\ fields = fs
  /\ vals = vs
  /\ vals0 = vs
  /\ outputs = os
  /\ raws = rs
  /\ pc = "start"
  /\ i = 1
  /\ err = ""
  /\ log = <<>>

\* Spec: responses of up to MaxOutputs INT8 outputs of shape [1] or [1, 1],
\* named "a", "b" or "", each with an empty or a one-byte payload, into structs
\* of two fields (tagged "a", "b" or untagged); the response may hold one
\* payload fewer than outputs.
OrchOutputs == [name : {"a", "b", ""}, datatype : {"INT8"}, shape : {<<1>>, <<1, 1>>}]
OrchRaws    == {[b |-> bs, tail |-> <<>>] : bs \in {<<>>, <<7>>, <<9>>}}
OrchFields  ==
  {<<[tag |-> t1, type |-> TypeOf(0, "int8")], [tag |-> t2, type |-> TypeOf(0, e2)]>> :
     t1 \in {"a", "b", ""}, t2 \in {"a", "b", ""}, e2 \in {"int8", "int16"}}

Init ==
  \E t \in Targets, n \in 0..MaxOutputs, short \in 0..1 :
    \E os \in [1..n -> OrchOutputs] :
      \E rs \in [1..(IF n = 0 THEN 0 ELSE n - short) -> OrchRaws] :
        \E fs \in (IF t = "struct pointer" THEN OrchFields ELSE {<<>>}) :
          /\ short <= n
          /\ Start(fs, [k \in 1..Len(fs) |-> ZeroValue(fs[k].type)], os, rs, t)

Spec == Init /\ [][Next]_vars

\* SpecNum: one numeric output (or one of an unsupported or unknown datatype)
\* of any shape, with any payload of up to MaxRaw bytes, into a struct of one
\* field tagged "a".
NumBytes  == {0, 255}
NumTags   == {"BOOL", "INT8", "INT16", "UINT16", "UINT32", "FLOAT16", "BFLOAT16"}
NumFields ==
  {<<[tag |-> "a", type |-> TypeOf(r, e)]>> :
     r \in 0..2, e \in {"bool", "int8", "int16", "uint16", "uint32"}}

InitNum ==
  \E t \in Targets, nm \in {"a", "z"}, dt \in NumTags, sh \in Shapes :
    \E bs \in SeqsUpTo(NumBytes, MaxRaw) :
      \E fs \in (IF t = "struct pointer" THEN NumFields ELSE {<<>>}) :
        Start(fs, [k \in 1..Len(fs) |-> ZeroValue(fs[k].type)],
              <<[name |-> nm, datatype |-> dt, shape |-> sh]>>,
              <<[b |-> bs, tail |-> <<>>]>>, t)

SpecNum == InitNum /\ [][Next]_vars

\* The wire format of a string tensor: each string is its length as four
\* little-endian bytes, then its bytes.
PutUint32(n) ==
  <<n % 256, (n \div 256) % 256, (n \div 65536) % 256, (n \div 16777216) % 256>>

RECURSIVE EncodeStrings(_)
EncodeStrings(ss) ==
  IF ss = <<>> THEN <<>>
  ELSE PutUint32(Len(ss[1])) \o ss[1] \o EncodeStrings(Tail(ss))

\* SpecStr: one STRING output of any shape whose payload encodes up to MaxStrs
\* strings, whole or with its last bytes cut off, in a backing array with no
\* spare capacity or with four spare zero bytes; into a struct of one field
\* tagged "a" that holds its zero value or an earlier value.
Strs      == {<<>>, <<97>>}
Cuts      == 0..2
Spares    == {<<>>, <<0, 0, 0, 0>>}
StrFields ==
  {<<[tag |-> "a", type |-> ty]>> :
     ty \in {TypeOf(0, "string"), TypeOf(1, "string"), TypeOf(2, "string"),
             TypeOf(0, "int8")}}
StrPayloads ==
  {SubSeq(EncodeStrings(ss), 1, Len(EncodeStrings(ss)) - cut) :
     ss \in SeqsUpTo(Strs, MaxStrs), cut \in Cuts}

InitStr ==
  \E t \in Targets, nm \in {"a", "z"}, sh \in Shapes, prior \in BOOLEAN :
    \E bs \in StrPayloads, sp \in Spares :
      \E fs \in (IF t = "struct pointer" THEN StrFields ELSE {<<>>}) :
        Start(fs,
              [k \in 1..Len(fs) |->
                 IF prior THEN PriorValue(fs[k].type) ELSE ZeroValue(fs[k].type)],
              <<[name |-> nm, datatype |-> "STRING", shape |-> sh]>>,
              <<[b |-> bs, tail |-> sp]>>, t)

SpecStr == InitStr /\ [][Next]_vars

\* ================================================================= claims
\* What the loop body does with output k, read off the inputs alone.
Outcome(k) ==
  IF ~Mapped(k) THEN "skip" ELSE ParseCall(fields, outputs, raws, k).st

RECURSIVE BoundUpTo(_)
\* The fields after the writes of outputs 1..n, in index order, on the values
\* the struct held at the call.
BoundUpTo(n) ==
  IF n = 0 THEN vals0
  ELSE LET r == ParseCall(fields, outputs, raws, n)
       IN  IF Mapped(n) /\ r.st = "ok" /\ r.write
           THEN [BoundUpTo(n - 1) EXCEPT ![getTagFieldMap(fields)[outputs[n].name]] = r.val]
           ELSE BoundUpTo(n - 1)

\* C1: Unmarshal handles the outputs in ascending index order and stops at the
\* first one that fails: when it returns an error from the loop, the error is
\* that of the output at the index it stopped at, every earlier output was
\* skipped or decoded without error, nothing after that index was handled, and
\* the fields hold exactly what the earlier outputs bound; it returns nil only
\* when no mapped output failed.
C1_FailFastInOrder ==
  /\ pc = "loop" => Len(log) = i - 1 /\ vals = BoundUpTo(i - 1)
  /\ pc \in {"failed", "panic"} /\ target = "struct pointer" =>
       /\ Len(log) = i
       /\ i <= Len(outputs)
       /\ Outcome(i) = (IF pc = "failed" THEN "err" ELSE "panic")
       /\ err = ParseCall(fields, outputs, raws, i).msg
       /\ \A k \in 1..(i - 1) : Outcome(k) \in {"skip", "ok"}
       /\ vals = BoundUpTo(i - 1)
  /\ pc = "done" =>
       /\ \A k \in 1..Len(outputs) : Outcome(k) \in {"skip", "ok"}
       /\ vals = BoundUpTo(Len(outputs))

\* C1 witness: the second output fails after the first one bound a field, and
\* the bound value is still there.
C1_Witness ==
  /\ pc = "failed"
  /\ i = 2
  /\ log = <<"set", "err">>
  /\ vals # vals0

\* C2: an output whose name no field is registered under is skipped, without
\* an error and without a change to any field, and a field with an empty or
\* absent annotation is ignored: whatever the outputs are named, it keeps the
\* value it had at the call.
C2_UnmappedSkippedUntaggedIgnored ==
  /\ \A k \in 1..Len(log) : ~Mapped(k) => log[k] = "skip"
  /\ \A f \in 1..Len(fields) : fields[f].tag = "" => vals[f] = vals0[f]

\* ---- the single-output specifications SpecNum and SpecStr
Handled == Len(log) = 1 /\ Mapped(1)

\* Rank 1 or 2 with every dimension at least 1: the claims below are stated
\* for the shapes of tensors that hold at least one element.
SupportedShape(sh) == Len(sh) \in {1, 2} /\ \A d \in 1..Len(sh) : sh[d] >= 1

\* The rank of the field type a supported shape implies.
ImpliedRank(sh) == IF Len(sh) = 1 THEN 0 ELSE IF sh[1] = 1 THEN 1 ELSE 2

NumericTags == Tags \ {"FLOAT16", "STRING"}

\* The k-th fixed-width little-endian element of payload b, from 1.
PayloadElem(tag, b, k) ==
  DecodeElem(tag, SubSeq(b, (k - 1) * Width(tag) + 1, k * Width(tag)))

\* C3: a mapped output of supported shape and datatype whose field has another
\* type than the one the shape and datatype imply always ends in the
\* type-mismatch error, the field unwritten, whatever the payload is.
C3_WrongTypeAlwaysMismatch ==
  ( /\ Handled
    /\ SupportedShape(outputs[1].shape)
    /\ outputs[1].datatype \in Tags \ {"FLOAT16"}
    /\ fields[1].type # TypeOf(ImpliedRank(outputs[1].shape), GoType(outputs[1].datatype)) )
  => pc = "failed" /\ err = ErrTypes /\ vals = vals0

\* C4: a mapped output whose shape has rank 0 or rank above 2 ends in the
\* unsupported-rank error, returned and not a crash, with no field written.
C4_BadRankReturnsError ==
  (Handled /\ Len(outputs[1].shape) \notin {1, 2})
  => pc = "failed" /\ err = ErrRank /\ vals = vals0

\* C5: a mapped numeric output of shape [m, n], m > 1, whose payload holds
\* exactly m*n elements and whose field is a [][]T of the matching T, succeeds
\* and binds m rows of n elements, element [r][c] being payload element
\* (r-1)*n + c. (Stated for n >= 1; with n = 0 no row is bound at all.)
C5_TwoDimRowMajor ==
  LET o == outputs[1]
      m == o.shape[1]
      n == o.shape[2]
  IN  ( /\ Handled
        /\ o.datatype \in NumericTags
        /\ Len(o.shape) = 2 /\ m > 1 /\ n >= 1
        /\ Len(raws[1].b) = m * n * Width(o.datatype)
        /\ fields[1].type = TypeOf(2, GoType(o.datatype)) )
      => /\ pc \in {"loop", "done"}
         /\ vals[1] = [r \in 1..m |-> [c \in 1..n |->
                          PayloadElem(o.datatype, raws[1].b, (r - 1) * n + c)]]

\* The strings ss laid out as a value of the type the shape implies.
Arranged(ss, sh) ==
  IF Len(sh) = 1 \/ sh[1] = 1 THEN <<ss>>
  ELSE [r \in 1..sh[1] |-> SubSeq(ss, (r - 1) * sh[2] + 1, r * sh[2])]

\* The number of strings a shape declares.
Declared(sh) == IF Len(sh) = 1 THEN 1 ELSE sh[1] * sh[2]

\* C6: a STRING output whose payload is the encoding of the strings ss, with
\* the shape that declares Len(ss) strings and a field of the matching string
\* type, succeeds and binds exactly ss, in order.
C6_StringRoundTrip ==
  \A ss \in SeqsUpTo(Strs, MaxStrs) :
    ( /\ Handled
      /\ SupportedShape(outputs[1].shape)
      /\ Declared(outputs[1].shape) = Len(ss)
      /\ raws[1].b = EncodeStrings(ss)
      /\ fields[1].type = TypeOf(ImpliedRank(outputs[1].shape), "string") )
    => /\ pc \in {"loop", "done"}
       /\ vals[1] = Arranged(ss, outputs[1].shape)

\* C7: a mapped STRING output of supported shape with an empty payload never
\* fails, and afterwards the field holds an empty result whatever it held
\* before: the empty string, a sequence of empty strings (or none), or
\* shape[0] sequences of shape[1] empty strings.
C7_EmptyPayloadEmptyResult ==
  LET sh == outputs[1].shape
  IN  ( /\ Handled
        /\ outputs[1].datatype = "STRING"
        /\ SupportedShape(sh)
        /\ raws[1].b = <<>>
        /\ fields[1].type = TypeOf(ImpliedRank(sh), "string") )
      => /\ pc \in {"loop", "done"}
         /\ CASE ImpliedRank(sh) = 0 -> vals[1] = << << <<>> >> >>
              [] ImpliedRank(sh) = 1 ->
                   \A c \in 1..Len(vals[1][1]) : vals[1][1][c] = <<>>
              [] ImpliedRank(sh) = 2 ->
                   vals[1] = [r \in 1..sh[1] |-> [c \in 1..sh[2] |-> <<>>]]

\* C8: a mapped numeric output of supported shape whose payload length is not
\* a multiple of the element width ends in an error.
C8_RemainderIsAnError ==
  ( /\ Handled
    /\ outputs[1].datatype \in NumericTags
    /\ SupportedShape(outputs[1].shape)
    /\ Len(raws[1].b) % Width(outputs[1].datatype) # 0 )
  => pc = "failed"

\* A mapped numeric output of shape [1, n] into a []T of the matching T that
\* Unmarshal decoded without error.
OneDimDecoded ==
  /\ Handled
  /\ pc \in {"loop", "done"}
  /\ outputs[1].datatype \in NumericTags
  /\ Len(outputs[1].shape) = 2 /\ outputs[1].shape[1] = 1
  /\ fields[1].type = TypeOf(1, GoType(outputs[1].datatype))

\* C9, as stated: the bound sequence has exactly shape[1] elements, the k-th
\* being the k-th element of the payload.
C9_LengthIsDeclared ==
  OneDimDecoded =>
    /\ Len(vals[1][1]) = outputs[1].shape[2]
    /\ \A k \in 1..Len(vals[1][1]) :
         vals[1][1][k] = PayloadElem(outputs[1].datatype, raws[1].b, k)

\* C9, amended: the bound sequence has as many elements as the payload holds
\* (its byte length divided by the element width, which is shape[1] only when
\* the payload holds exactly shape[1] elements), the k-th being the k-th
\* element of the payload.
C9_LengthIsPayload ==
  OneDimDecoded =>
    /\ Len(vals[1][1]) * Width(outputs[1].datatype) = Len(raws[1].b)
    /\ \A k \in 1..Len(vals[1][1]) :
         vals[1][1][k] = PayloadElem(outputs[1].datatype, raws[1].b, k)

\* C9 witness: two different int16 elements bound in payload order.
C9_Witness ==
  /\ OneDimDecoded
  /\ outputs[1].datatype = "INT16"
  /\ outputs[1].shape = <<1, 2>>
  /\ vals[1] = << << <<-256>>, <<255>> >> >>

RECURSIVE RunsShort(_, _, _)
\* Decoding count strings from offset prev of b needs more bytes than b has.
RunsShort(b, prev, count) ==
  /\ count > 0
  /\ \/ prev + 4 > Len(b)
     \/ prev + 4 + LEUint(SubSeq(b, prev + 1, prev + 4)) > Len(b)
     \/ RunsShort(b, prev + 4 + LEUint(SubSeq(b, prev + 1, prev + 4)), count - 1)

\* C10: a mapped STRING output with a non-empty payload that runs short of a
\* length prefix or of the bytes a prefix declares ends in a returned error,
\* not a crash, and the field is not written.
C10_ShortStringIsAnError ==
  ( /\ Handled
    /\ outputs[1].datatype = "STRING"
    /\ SupportedShape(outputs[1].shape)
    /\ raws[1].b # <<>>
    /\ fields[1].type = TypeOf(ImpliedRank(outputs[1].shape), "string")
    /\ RunsShort(raws[1].b, 0, Declared(outputs[1].shape)) )
  => pc = "failed" /\ vals = vals0

====
